---- MODULE Spec2Model ----
(***************************************************************************)
(* Model of the Koenigsberg Challenge: the graph queries of lib/graph, the *)
(* Eulerian existence check, Hierholzer's stack loop of findEulerianPath,  *)
(* the hint engine, the solution narrator and the unsolvability advisor of *)
(* lib/solver (specification Spec; SpecFair adds the loop's run to         *)
(* completion), the game operations of the useGame hook on the shipped     *)
(* levels (specification SpecGame), and the AI Solve animation and Reset   *)
(* handlers of the KonigsbergGame component (specification SpecSolve).     *)
(*                                                                         *)
(* A node is its id (x, y and label are cosmetic and read by no solver     *)
(* function).  An edge is a record [id, from, to, crossed]; the edge id    *)
(* "e<i>" of the source is the number i.  Node ids are non-empty strings   *)
(* and a graph has at least one node.                                      *)
(***************************************************************************)
EXTENDS Integers, Sequences, FiniteSets, TLC

\* ------------------------------------------------------------------ bounds
MaxNodes == 3
MaxEdges == 2
\* Moves of one game off the hinted line; a game that follows the hints runs on.
MaxMoves == 4

NodeNames == <<"A", "B", "C", "D", "E", "F", "G", "H", "I", "J">>

\* The absent optional argument (startNode?: string).
NoStart == "undefined"

\* The absent current node (currentNode: string | null).
NoNode == "null"

\* ------------------------------------------------------------------ levels
E(i, f, t) == [id |-> i, from |-> f, to |-> t, crossed |-> FALSE]

koenigsbergOriginal ==
  [nodes |-> <<"A", "B", "C", "D">>,
   edges |-> <<E(1, "A", "C"), E(2, "A", "C"), E(3, "A", "D"), E(4, "B", "C"),
               E(5, "B", "C"), E(6, "B", "D"), E(7, "C", "D")>>]

simpleTriangle ==
  [nodes |-> <<"A", "B", "C">>,
   edges |-> <<E(1, "A", "B"), E(2, "B", "C"), E(3, "C", "A")>>]

squareDiagonals ==
  [nodes |-> <<"A", "B", "C", "D">>,
   edges |-> <<E(1, "A", "B"), E(2, "B", "C"), E(3, "C", "D"), E(4, "D", "A"),
               E(5, "A", "C"), E(6, "B", "D")>>]

houseEnvelope ==
  [nodes |-> <<"A", "B", "C", "D", "E">>,
   edges |-> <<E(1, "A", "B"), E(2, "B", "C"), E(3, "C", "D"), E(4, "D", "A"),
               E(5, "A", "C"), E(6, "B", "D"), E(7, "D", "E"), E(8, "E", "C")>>]

pentagonStar ==
  [nodes |-> <<"A", "B", "C", "D", "E">>,
   edges |-> <<E(1, "A", "B"), E(2, "B", "C"), E(3, "C", "D"), E(4, "D", "E"),
               E(5, "E", "A"), E(6, "A", "C"), E(7, "A", "D"), E(8, "B", "D"),
               E(9, "B", "E"), E(10, "C", "E")>>]

complexWeb ==
  [nodes |-> <<"A", "B", "C", "D", "E", "F", "G", "H">>,
   edges |-> <<E(1, "A", "B"), E(2, "B", "C"), E(3, "C", "D"), E(4, "D", "E"),
               E(5, "E", "F"), E(6, "F", "G"), E(7, "G", "A"), E(8, "A", "H"),
               E(9, "B", "H"), E(10, "C", "H"), E(11, "D", "H"), E(12, "E", "H"),
               E(13, "F", "H"), E(14, "G", "H")>>]

koenigsbergModified ==
  [nodes |-> <<"A", "B", "C", "D">>,
   edges |-> <<E(1, "A", "C"), E(2, "A", "C"), E(3, "A", "D"), E(4, "B", "C"),
               E(5, "B", "D"), E(6, "C", "D")>>]

butterfly ==
  [nodes |-> <<"A", "B", "C", "D", "E">>,
   edges |-> <<E(1, "A", "B"), E(2, "B", "C"), E(3, "C", "A"), E(4, "A", "B"),
               E(5, "A", "D"), E(6, "D", "E"), E(7, "E", "A"), E(8, "A", "D")>>]

levels ==
  <<simpleTriangle, squareDiagonals, houseEnvelope, butterfly, pentagonStar,
    koenigsbergModified, complexWeb, koenigsbergOriginal>>

\* The path graph A-B, B-C, C-D used as a worked example of the "path" case.
pathGraph ==
  [nodes |-> <<"A", "B", "C", "D">>,
   edges |-> <<E(1, "A", "B"), E(2, "B", "C"), E(3, "C", "D")>>]

\* A star of nine bridges around A: ten odd-degree nodes.
nineLeafStar ==
  [nodes |-> NodeNames,
   edges |-> [i \in 1..9 |-> E(i, "A", NodeNames[i + 1])]]

\* A fork A-B, C-D with a loop bridge at A: four odd-degree nodes.
loopFork ==
  [nodes |-> <<"A", "B", "C", "D">>,
   edges |-> <<E(1, "A", "A"), E(2, "A", "B"), E(3, "C", "D")>>]

\* Level.difficulty of the levels, in the order of levels.
difficulty ==
  <<"easy", "easy", "medium", "medium", "medium", "hard", "hard", "impossible">>

\* ------------------------------------------------------------------ helpers
Range(s) == {s[i] : i \in DOMAIN s}

Reverse(s) == [i \in 1..Len(s) |-> s[Len(s) + 1 - i]]

Includes(s, x) == \E i \in DOMAIN s : s[i] = x

\* Array.prototype.indexOf, 1-based; 0 when absent.
IndexOf(s, x) ==
  IF Includes(s, x) THEN CHOOSE i \in DOMAIN s : s[i] = x /\ \A j \in 1..(i - 1) : s[j] # x
  ELSE 0

\* Array.prototype.splice(i, 1) for a 1-based index i inside the array.
Splice1(s, i) == [k \in 1..(Len(s) - 1) |-> IF k < i THEN s[k] ELSE s[k + 1]]

Slice(s, n) == IF Len(s) <= n THEN s ELSE SubSeq(s, 1, n)

\* ------------------------------------------------------------------ lib/graph
Connects(e, a, b) == (e.from = a /\ e.to = b) \/ (e.from = b /\ e.to = a)

\* getNodeDegrees counting only the `from` end of every edge.
getNodeDegrees_fromOnly(g, excludeCrossed) ==
  [v \in Range(g.nodes) |->
     Cardinality({i \in DOMAIN g.edges :
                    ~(excludeCrossed /\ g.edges[i].crossed) /\ g.edges[i].from = v})]

getNodeDegrees(g, excludeCrossed) ==
  [v \in Range(g.nodes) |->
     Cardinality({i \in DOMAIN g.edges :
                    ~(excludeCrossed /\ g.edges[i].crossed) /\ g.edges[i].from = v})
     + Cardinality({i \in DOMAIN g.edges :
                    ~(excludeCrossed /\ g.edges[i].crossed) /\ g.edges[i].to = v})]

\* degrees.forEach visits the keys in insertion order, which is node order.
OddDegreeNodes(g) ==
  LET degrees == getNodeDegrees(g, FALSE)
  IN  SelectSeq(g.nodes, LAMBDA v : degrees[v] % 2 # 0)

\* hasEulerianPath with the path branch taken for any odd count of 2 or more.
hasEulerianPath_atLeastTwo(g) ==
  LET oddDegreeNodes == OddDegreeNodes(g)
  IN  IF Len(oddDegreeNodes) = 0
        THEN [hasPath |-> TRUE, startNodes |-> g.nodes, type |-> "circuit"]
      ELSE IF Len(oddDegreeNodes) >= 2
        THEN [hasPath |-> TRUE, startNodes |-> oddDegreeNodes, type |-> "path"]
      ELSE [hasPath |-> FALSE, startNodes |-> <<>>, type |-> "none"]

\* hasEulerianPath answering the path case with every node as a candidate.
hasEulerianPath_allNodes(g) ==
  LET oddDegreeNodes == OddDegreeNodes(g)
  IN  IF Len(oddDegreeNodes) = 0
        THEN [hasPath |-> TRUE, startNodes |-> g.nodes, type |-> "circuit"]
      ELSE IF Len(oddDegreeNodes) = 2
        THEN [hasPath |-> TRUE, startNodes |-> g.nodes, type |-> "path"]
      ELSE [hasPath |-> FALSE, startNodes |-> <<>>, type |-> "none"]

hasEulerianPath(g) ==
  LET oddDegreeNodes == OddDegreeNodes(g)
  IN  IF Len(oddDegreeNodes) = 0
        THEN [hasPath |-> TRUE, startNodes |-> g.nodes, type |-> "circuit"]
      ELSE IF Len(oddDegreeNodes) = 2
        THEN [hasPath |-> TRUE, startNodes |-> oddDegreeNodes, type |-> "path"]
      ELSE [hasPath |-> FALSE, startNodes |-> <<>>, type |-> "none"]

countRemainingEdges(g) == Cardinality({i \in DOMAIN g.edges : ~g.edges[i].crossed})

\* ------------------------------------------------------------------ lib/solver
\* The two registrations of one edge on the neighbour list of node v, in the
\* order the source pushes them: on adj[edge.from], then on adj[edge.to].
AdjEntries(e, v) ==
  IF e.crossed THEN <<>>
  ELSE (IF e.from = v THEN <<[to |-> e.to, edgeId |-> e.id, used |-> FALSE]>> ELSE <<>>)
       \o (IF e.to = v THEN <<[to |-> e.from, edgeId |-> e.id, used |-> FALSE]>> ELSE <<>>)

RECURSIVE AdjOf(_, _)
AdjOf(es, v) == IF es = <<>> THEN <<>> ELSE AdjEntries(Head(es), v) \o AdjOf(Tail(es), v)

buildAdjacencyList(g) == [v \in Range(g.nodes) |-> AdjOf(g.edges, v)]

\* Index of the first entry of a neighbour list that is not used; 0 when none.
FirstUnused(neighbors) ==
  IF \E i \in DOMAIN neighbors : ~neighbors[i].used
    THEN CHOOSE i \in DOMAIN neighbors :
           ~neighbors[i].used /\ \A j \in 1..(i - 1) : neighbors[j].used
  ELSE 0

\* adj[node].find(e => e.edgeId === edgeId && !e.used); 0 when undefined.
FindReverse(neighbors, edgeId) ==
  IF \E i \in DOMAIN neighbors : neighbors[i].edgeId = edgeId /\ ~neighbors[i].used
    THEN CHOOSE i \in DOMAIN neighbors :
           /\ neighbors[i].edgeId = edgeId /\ ~neighbors[i].used
           /\ \A j \in 1..(i - 1) : ~(neighbors[j].edgeId = edgeId /\ ~neighbors[j].used)
  ELSE 0

\* MarkUsed leaving the reverse registration of the edge unused.
MarkUsed_forwardOnly(a, current, i) == [a EXCEPT ![current][i].used = TRUE]

\* Marks entry i of adj[current] used and then its reverse registration.
MarkUsed(a, current, i) ==
  LET neighbor == a[current][i]
      a1 == [a EXCEPT ![current][i].used = TRUE]
      r  == FindReverse(a1[neighbor.to], neighbor.edgeId)
  IN  IF r = 0 THEN a1 ELSE [a1 EXCEPT ![neighbor.to][r].used = TRUE]

\* ResolveStart ignoring the caller's start node.
ResolveStart_ignoreArg(info, startNode) == info.startNodes[1]

\* The start node findEulerianPath resolves from its optional argument.
ResolveStart(info, startNode) ==
  IF startNode = NoStart \/ ~Includes(info.startNodes, startNode)
    THEN info.startNodes[1]
  ELSE startNode

\* The stack loop of findEulerianPath run to its end: the output sequence in
\* pop order.
RECURSIVE RunLoop(_, _, _)
RunLoop(a, st, out) ==
  IF Len(st) = 0 THEN out
  ELSE LET current == st[Len(st)]
           i == FirstUnused(a[current])
       IN  IF i # 0
             THEN RunLoop(MarkUsed(a, current, i), Append(st, a[current][i].to), out)
           ELSE RunLoop(a, SubSeq(st, 1, Len(st) - 1), Append(out, current))

\* findEulerianPath as one call: null, or the returned node sequence.
findEulerianPath(g, startNode) ==
  LET eulerianInfo == hasEulerianPath(g)
  IN  IF ~eulerianInfo.hasPath
        THEN [isNull |-> TRUE, isSet |-> TRUE, seq |-> <<>>]
      ELSE [isNull |-> FALSE, isSet |-> TRUE,
            seq |-> Reverse(RunLoop(buildAdjacencyList(g),
                                    <<ResolveStart(eulerianInfo, startNode)>>, <<>>))]

\* ---- isSolvableFromState
\* tempGraph keeps the uncrossed edges only; with none left the state is
\* solvable, otherwise findEulerianPath from currentNode must return a walk of
\* tempGraph.edges.length + 1 nodes.
isSolvableFromState(g, currentNode) ==
  LET tempGraph == [nodes |-> g.nodes,
                    edges |-> SelectSeq(g.edges, LAMBDA e : ~e.crossed)]
  IN  IF Len(tempGraph.edges) = 0 THEN TRUE
      ELSE LET found == findEulerianPath(tempGraph, currentNode)
           IN  ~found.isNull /\ Len(found.seq) = Len(tempGraph.edges) + 1

\* ---- getHint
NoHint == [isNull |-> TRUE, nextNode |-> NoNode, message |-> "none"]

\* The message is kept as its kind: "startAt" (Start at X - it has an odd
\* number of bridges!), "anywhere" (You can start anywhere! Try X.) or
\* "moveTo" (Move to X to continue the optimal path.).
getHint_lastCandidate(g, currentNode) ==
  LET eulerianInfo == hasEulerianPath(g)
  IN  IF eulerianInfo.hasPath /\ Len(eulerianInfo.startNodes) > 0
        THEN [isNull |-> FALSE,
              nextNode |-> eulerianInfo.startNodes[Len(eulerianInfo.startNodes)],
              message |-> IF eulerianInfo.type = "path" THEN "startAt" ELSE "anywhere"]
      ELSE NoHint

getHint(g, currentNode) ==
  IF currentNode = NoNode
    THEN LET eulerianInfo == hasEulerianPath(g)
         IN  IF eulerianInfo.hasPath /\ Len(eulerianInfo.startNodes) > 0
               THEN [isNull |-> FALSE, nextNode |-> eulerianInfo.startNodes[1],
                     message |-> IF eulerianInfo.type = "path" THEN "startAt" ELSE "anywhere"]
             ELSE NoHint
  ELSE LET found == findEulerianPath(g, currentNode)
           currentIndex == IndexOf(found.seq, currentNode)
       IN  IF found.isNull \/ Len(found.seq) < 2 THEN NoHint
           ELSE IF currentIndex = 0 \/ currentIndex >= Len(found.seq) THEN NoHint
           ELSE [isNull |-> FALSE, nextNode |-> found.seq[currentIndex + 1],
                 message |-> "moveTo"]

\* ---- getSolutionSteps
\* graph.edges.find(e => !edges.includes(e) && e joins from and to): the index
\* of the first such edge, 0 when undefined.  `taken` holds the edges pushed so far.
FindStepEdge(g, taken, from, to) ==
  LET fits(i) == ~Includes(taken, g.edges[i].id) /\ Connects(g.edges[i], from, to)
  IN  IF \E i \in DOMAIN g.edges : fits(i)
        THEN CHOOSE i \in DOMAIN g.edges : fits(i) /\ \A j \in 1..(i - 1) : ~fits(j)
      ELSE 0

\* The for loop of getSolutionSteps from path index i on.  A step is
\* [node, edge, from]: edge is the edge's id (0 for null) and from/node are
\* the two nodes its description names (Cross bridge from X to Y).
RECURSIVE StepsFrom(_, _, _, _, _)
StepsFrom(g, seq, i, taken, steps) ==
  IF i > Len(seq) - 1 THEN [edges |-> taken, steps |-> steps]
  ELSE LET k == FindStepEdge(g, taken, seq[i], seq[i + 1])
       IN  IF k # 0
             THEN StepsFrom(g, seq, i + 1, Append(taken, g.edges[k].id),
                            Append(steps, [node |-> seq[i + 1], edge |-> g.edges[k].id,
                                           from |-> seq[i]]))
           ELSE StepsFrom(g, seq, i + 1, taken, steps)

NoSteps == [isNull |-> TRUE, path |-> <<>>, edges |-> <<>>, steps |-> <<>>]

getSolutionSteps(g, startNode) ==
  LET found == findEulerianPath(g, startNode)
  IN  IF found.isNull THEN NoSteps
      ELSE LET r == StepsFrom(g, found.seq, 1, <<>>,
                              <<[node |-> found.seq[1], edge |-> 0, from |-> NoNode]>>)
           IN  [isNull |-> FALSE, path |-> found.seq, edges |-> r.edges, steps |-> r.steps]

\* ---- suggestModifications
HasEdgeBetween(g, a, b) == \E i \in DOMAIN g.edges : Connects(g.edges[i], a, b)

\* The pair the double loop over oddNodesCopy leaves in bestPair: the first
\* pair (i, j), i < j, in scan order that already shares an edge, else the
\* first pair scanned.
BestPair(g, copy) ==
  LET pairs == {p \in (DOMAIN copy) \X (DOMAIN copy) :
                  p[1] < p[2] /\ HasEdgeBetween(g, copy[p[1]], copy[p[2]])}
      Before(p, q) == p[1] < q[1] \/ (p[1] = q[1] /\ p[2] <= q[2])
  IN  IF pairs = {} THEN <<copy[1], copy[2]>>
      ELSE LET p == CHOOSE p \in pairs : \A q \in pairs : Before(p, q)
           IN  <<copy[p[1]], copy[p[2]]>>

RECURSIVE AddSuggestions(_, _)
AddSuggestions(g, copy) ==
  IF Len(copy) > 2
    THEN LET bestPair == BestPair(g, copy)
             c1 == Splice1(copy, IndexOf(copy, bestPair[1]))
             c2 == Splice1(c1, IndexOf(c1, bestPair[2]))
         IN  <<[type |-> "add", from |-> bestPair[1], to |-> bestPair[2]]>>
             \o AddSuggestions(g, c2)
  ELSE <<>>

RemoveSuggestion(g, node, degrees) ==
  LET nodeEdges == SelectSeq(g.edges, LAMBDA e : e.from = node \/ e.to = node)
  IN  IF Len(nodeEdges) > 1
        THEN LET edge == nodeEdges[1]
                 otherNode == IF edge.from = node THEN edge.to ELSE edge.from
             IN  IF degrees[otherNode] % 2 # 0
                   THEN <<[type |-> "remove", from |-> edge.from, to |-> edge.to]>>
                 ELSE <<>>
      ELSE <<>>

RECURSIVE RemoveSuggestions(_, _, _)
RemoveSuggestions(g, ns, degrees) ==
  IF ns = <<>> THEN <<>>
  ELSE RemoveSuggestion(g, Head(ns), degrees) \o RemoveSuggestions(g, Tail(ns), degrees)

\* suggestModifications without the final slice(0, 3).
suggestModifications_noSlice(g, oddNodes, degrees) ==
  AddSuggestions(g, oddNodes) \o RemoveSuggestions(g, Slice(oddNodes, 2), degrees)

suggestModifications(g, oddNodes, degrees) ==
  Slice(AddSuggestions(g, oddNodes) \o RemoveSuggestions(g, Slice(oddNodes, 2), degrees), 3)

\* analyzePuzzle reporting a graph with 2 odd-degree nodes as unsolvable.
analyzePuzzle_onlyCircuits(g) ==
  LET degrees == getNodeDegrees(g, FALSE)
      oddNodes == SelectSeq(g.nodes, LAMBDA v : degrees[v] % 2 # 0)
  IN  IF Len(oddNodes) = 0
        THEN [solvable |-> TRUE, oddDegreeCount |-> 0, oddDegreeNodes |-> <<>>,
              hasModifications |-> FALSE, modifications |-> <<>>]
      ELSE [solvable |-> FALSE, oddDegreeCount |-> Len(oddNodes),
            oddDegreeNodes |-> oddNodes, hasModifications |-> TRUE,
            modifications |-> suggestModifications(g, oddNodes, degrees)]

analyzePuzzle(g) ==
  LET degrees == getNodeDegrees(g, FALSE)
      oddNodes == SelectSeq(g.nodes, LAMBDA v : degrees[v] % 2 # 0)
  IN  IF Len(oddNodes) = 0
        THEN [solvable |-> TRUE, oddDegreeCount |-> 0, oddDegreeNodes |-> <<>>,
              hasModifications |-> FALSE, modifications |-> <<>>]
      ELSE IF Len(oddNodes) = 2
        THEN [solvable |-> TRUE, oddDegreeCount |-> 2, oddDegreeNodes |-> oddNodes,
              hasModifications |-> FALSE, modifications |-> <<>>]
      ELSE [solvable |-> FALSE, oddDegreeCount |-> Len(oddNodes),
            oddDegreeNodes |-> oddNodes, hasModifications |-> TRUE,
            modifications |-> suggestModifications(g, oddNodes, degrees)]

\* ------------------------------------------------------------------ inputs
Names(n) == {NodeNames[i] : i \in 1..n}

\* An edge between two of the first n nodes, crossed or not.  A generated edge
\* is stored with `from` not after `to` in node order; the levels also hold
\* edges stored the other way round (C-A, D-A, E-A, G-A).
EdgeChoices(n) ==
  {ec \in [from : Names(n), to : Names(n), crossed : BOOLEAN] :
     \E a \in 1..n : \E b \in a..n : ec.from = NodeNames[a] /\ ec.to = NodeNames[b]}

\* Every graph of n nodes and k edges (parallel edges, self-loops and crossed
\* edges included); edge ids are unique: the edge at index i has id i.
GenGraphs(n, k) ==
  {[nodes |-> SubSeq(NodeNames, 1, n),
    edges |-> [i \in 1..k |-> [id |-> i, from |-> es[i].from, to |-> es[i].to,
                               crossed |-> es[i].crossed]]] :
     es \in [1..k -> EdgeChoices(n)]}

Graphs ==
  UNION {GenGraphs(n, k) : n \in 1..MaxNodes, k \in 0..MaxEdges}
  \cup Range(levels) \cup {pathGraph, nineLeafStar, loopFork}

StartArgs(g) == Range(g.nodes) \cup {NoStart}

\* ------------------------------------------------------------------ objects
\* An edge object lives in the store under a reference, and a Graph object
\* holds the references of its edges, so that two graphs can share an edge
\* object and a write through one is seen through the other.  The store keeps
\* the edge objects of every level graph (canon) and two generations of
\* game-state graphs (snap): the current one and the one it replaced.  Node
\* objects are never written and are kept by value.
Ref(space, k, i) == [space |-> space, gen |-> k, idx |-> i]

CanonHeap ==
  [canon |-> [l \in DOMAIN levels |-> levels[l].edges],
   snap |-> [k \in 0..1 |-> <<>>]]

Deref(h, r) ==
  IF r.space = "canon" THEN h.canon[r.gen][r.idx] ELSE h.snap[r.gen][r.idx]

\* level.graph of the level at index l.
levelGraph(l) ==
  [nodes |-> levels[l].nodes,
   edges |-> [i \in DOMAIN levels[l].edges |-> Ref("canon", l, i)]]

\* The graph as its readers see it: every reference replaced by its object.
Value(h, g) ==
  [nodes |-> g.nodes, edges |-> [i \in DOMAIN g.edges |-> Deref(h, g.edges[i])]]

\* The generation a new game-state graph is allocated in: not the one g is in.
FreshGen(g) ==
  IF Len(g.edges) > 0 /\ g.edges[1].space = "snap" THEN 1 - g.edges[1].gen ELSE 0

\* A new game leaves the graphs of the one it replaces without a holder: their
\* objects leave the store.
Dropped(h) == [h EXCEPT !.snap = [k \in 0..1 |-> <<>>]]

\* cloneGraph returning the graph it was given.
cloneGraph_shallow(h, g, k) == [heap |-> h, graph |-> g]

\* cloneGraph: a new object for every edge, holding a copy of its fields.
cloneGraph(h, g, k) ==
  [heap |-> [h EXCEPT !.snap[k] = [i \in DOMAIN g.edges |-> Deref(h, g.edges[i])]],
   graph |-> [nodes |-> g.nodes,
              edges |-> [i \in DOMAIN g.edges |-> Ref("snap", k, i)]]]

\* edge.crossed = true, written to the object itself.
SetCrossed(h, r) ==
  IF r.space = "canon"
    THEN [h EXCEPT !.canon[r.gen][r.idx].crossed = TRUE]
  ELSE [h EXCEPT !.snap[r.gen][r.idx].crossed = TRUE]

\* getEdgeBetween ignoring the crossed flag.
getEdgeBetween_anyEdge(h, g, from, to) ==
  LET hits == {i \in DOMAIN g.edges : Connects(Deref(h, g.edges[i]), from, to)}
  IN  IF hits = {} THEN 0 ELSE CHOOSE i \in hits : \A j \in hits : i <= j

\* getEdgeBetween: the index of the first uncrossed edge joining the two nodes,
\* 0 for undefined.
getEdgeBetween(h, g, from, to) ==
  LET hits == {i \in DOMAIN g.edges :
                 ~Deref(h, g.edges[i]).crossed /\ Connects(Deref(h, g.edges[i]), from, to)}
  IN  IF hits = {} THEN 0 ELSE CHOOSE i \in hits : \A j \in hits : i <= j

\* graph.edges.find(e => e.id === id), 0 for undefined.
FindById(h, g, id) ==
  LET hits == {i \in DOMAIN g.edges : Deref(h, g.edges[i]).id = id}
  IN  IF hits = {} THEN 0 ELSE CHOOSE i \in hits : \A j \in hits : i <= j

\* getAvailableEdges, as the set of edge indices.
getAvailableEdges(h, g, nodeId) ==
  {i \in DOMAIN g.edges :
     LET e == Deref(h, g.edges[i])
     IN  ~e.crossed /\ (e.from = nodeId \/ e.to = nodeId)}

FreshGame(g) ==
  [graph |-> g, currentNode |-> NoNode, path |-> <<>>, crossedEdges |-> {},
   gameStatus |-> "idle", moveCount |-> 0]

\* ------------------------------------------------------------------ state
VARIABLES
  graph,        \* the Graph handed to the solver
  pc,           \* idle | loop | found | classified | analyzed | hinted | narrated | judged
  startArg,     \* findEulerianPath's startNode argument
  info,         \* eulerianInfo, the result of hasEulerianPath
  adj,          \* the adjacency list private to one findEulerianPath call
  stack,        \* Hierholzer's traversal stack
  path,         \* the output sequence, in pop order
  result,       \* findEulerianPath's return value
  analysis,     \* analyzePuzzle's return value
  calls,        \* completed findEulerianPath calls on this graph
  firstResult,  \* what the first of them returned
  curArg,       \* getHint's currentNode or getSolutionSteps' startNode argument
  hint,         \* getHint's return value
  narration,    \* getSolutionSteps' return value
  solvableFromState, \* isSolvableFromState's return value
  level,        \* useGame's level state: the index of the Level in levels
  gameState,    \* useGame's gameState state
  heap,         \* the edge objects that level graphs and game-state graphs refer to
  followedHints, \* every selection and move of this game was getHint's nextNode
  isSolving,    \* the component's isSolving state
  solveRun,     \* the handleSolve call waiting on a timer: where it resumes
  closure       \* the gameState that call's selectStartNode and makeMove closed over

solverVars == <<graph, pc, startArg, info, adj, stack, path, result, analysis, calls,
               firstResult, curArg, hint, narration, solvableFromState>>

gameVars == <<level, gameState, heap, followedHints>>

solveVars == <<isSolving, solveRun, closure>>

vars == <<solverVars, gameVars, solveVars>>

NoInfo == [hasPath |-> FALSE, startNodes |-> <<>>, type |-> "unset"]
NoAnalysis == [solvable |-> FALSE, oddDegreeCount |-> 0, oddDegreeNodes |-> <<>>,
               hasModifications |-> FALSE, modifications |-> <<>>]
NoResult == [isNull |-> FALSE, isSet |-> FALSE, seq |-> <<>>]
NoVerdict == "unset"
Null == [isNull |-> TRUE, isSet |-> TRUE, seq |-> <<>>]
Returned(s) == [isNull |-> FALSE, isSet |-> TRUE, seq |-> s]

\* No solver call is in progress.
SolverIdle ==
  /\ pc = "idle"
  /\ startArg = NoStart
  /\ info = NoInfo
  /\ adj = <<>>
  /\ stack = <<>>
  /\ path = <<>>
  /\ result = NoResult
  /\ analysis = NoAnalysis
  /\ calls = 0
  /\ firstResult = NoResult
  /\ curArg = NoNode
  /\ hint = NoHint
  /\ narration = NoSteps
  /\ solvableFromState = NoVerdict

\* No handleSolve call is waiting, and none has returned in this game.
NoRun == [pc |-> "none", path |-> <<>>, i |-> 0]

\* The handleSolve call of this game has returned.
RunDone == [pc |-> "done", path |-> <<>>, i |-> 0]

\* A handleSolve call is waiting on a timer.
Waiting == solveRun.pc \in {"start", "move"}

NoClosure == FreshGame([nodes |-> <<>>, edges |-> <<>>])

\* useState(false) for isSolving; no handler has been called.
SolveIdle ==
  /\ isSolving = FALSE
  /\ solveRun = NoRun
  /\ closure = NoClosure

\* useGame(levels[0]): the state initialisers of the hook and of the component.
GameConstructed ==
  LET c == cloneGraph(CanonHeap, levelGraph(1), 0)
  IN  /\ level = 1
      /\ heap = c.heap
      /\ gameState = FreshGame(c.graph)
      /\ followedHints = TRUE
      /\ SolveIdle

Init ==
  /\ graph \in Graphs
  /\ SolverIdle
  /\ GameConstructed

\* hasEulerianPath(graph), called on its own.
Classify ==
  /\ pc = "idle"
  /\ info' = hasEulerianPath(graph)
  /\ pc' = "classified"
  /\ UNCHANGED <<graph, startArg, adj, stack, path, result, analysis, calls, firstResult, curArg, hint, narration>>
  /\ UNCHANGED solvableFromState
  /\ UNCHANGED gameVars
  /\ UNCHANGED solveVars

\* analyzePuzzle(graph).
Analyze ==
  /\ pc = "idle"
  /\ analysis' = analyzePuzzle(graph)
  /\ pc' = "analyzed"
  /\ UNCHANGED <<graph, startArg, info, adj, stack, path, result, calls, firstResult, curArg, hint, narration>>
  /\ UNCHANGED solvableFromState
  /\ UNCHANGED gameVars
  /\ UNCHANGED solveVars

\* FindBegin without the early return on a failed parity check.
FindBegin_noParityCheck(s) ==
  /\ pc = "idle"
  /\ calls = 0 \/ (calls = 1 /\ s = startArg)
  /\ startArg' = s
  /\ info' = hasEulerianPath(graph)
  /\ adj' = buildAdjacencyList(graph)
  /\ stack' = <<IF s = NoStart \/ ~Includes(info'.startNodes, s) THEN graph.nodes[1] ELSE s>>
  /\ result' = NoResult
  /\ pc' = "loop"
  /\ path' = <<>>
  /\ UNCHANGED <<graph, analysis, calls, firstResult, curArg, hint, narration>>
  /\ UNCHANGED solvableFromState
  /\ UNCHANGED gameVars
  /\ UNCHANGED solveVars

\* findEulerianPath(graph, s) up to the stack loop: the parity check, the
\* adjacency list and the resolved start node.  The graph is solved once and
\* then once more with the same start argument.
FindBegin(s) ==
  /\ pc = "idle"
  /\ calls = 0 \/ (calls = 1 /\ s = startArg)
  /\ startArg' = s
  /\ info' = hasEulerianPath(graph)
  /\ IF ~info'.hasPath
       THEN /\ result' = Null
            /\ pc' = "found"
            /\ UNCHANGED <<adj, stack>>
       ELSE /\ adj' = buildAdjacencyList(graph)
            /\ stack' = <<ResolveStart(info', s)>>
            /\ result' = NoResult
            /\ pc' = "loop"
  /\ path' = <<>>
  /\ UNCHANGED <<graph, analysis, calls, firstResult, curArg, hint, narration>>
  /\ UNCHANGED solvableFromState
  /\ UNCHANGED gameVars
  /\ UNCHANGED solveVars

\* LoopStep keeping the used mark in the caller's edge (edge.crossed) as well.
LoopStep_marksGraph ==
  /\ pc = "loop"
  /\ Len(stack) > 0
  /\ LET current == stack[Len(stack)]
         i == FirstUnused(adj[current])
     IN  IF i # 0
           THEN /\ adj' = MarkUsed(adj, current, i)
                /\ stack' = Append(stack, adj[current][i].to)
                /\ path' = path
                /\ graph' = [graph EXCEPT !.edges =
                               [k \in DOMAIN graph.edges |->
                                  IF graph.edges[k].id = adj[current][i].edgeId
                                    THEN [graph.edges[k] EXCEPT !.crossed = TRUE]
                                  ELSE graph.edges[k]]]
           ELSE /\ path' = Append(path, current)
                /\ stack' = SubSeq(stack, 1, Len(stack) - 1)
                /\ adj' = adj
                /\ graph' = graph
  /\ UNCHANGED <<pc, startArg, info, result, analysis, calls, firstResult, curArg, hint, narration>>
  /\ UNCHANGED solvableFromState
  /\ UNCHANGED gameVars
  /\ UNCHANGED solveVars

\* One iteration of while (stack.length > 0).
LoopStep ==
  /\ pc = "loop"
  /\ Len(stack) > 0
  /\ LET current == stack[Len(stack)]
         i == FirstUnused(adj[current])
     IN  IF i # 0
           THEN /\ adj' = MarkUsed(adj, current, i)
                /\ stack' = Append(stack, adj[current][i].to)
                /\ path' = path
           ELSE /\ path' = Append(path, current)
                /\ stack' = SubSeq(stack, 1, Len(stack) - 1)
                /\ adj' = adj
  /\ UNCHANGED <<graph, pc, startArg, info, result, analysis, calls, firstResult, curArg, hint, narration>>
  /\ UNCHANGED solvableFromState
  /\ UNCHANGED gameVars
  /\ UNCHANGED solveVars

\* LoopExit answering null for a walk that crossed no edge.
LoopExit_nullWhenShort ==
  /\ pc = "loop"
  /\ Len(stack) = 0
  /\ result' = IF Len(path) < 2 THEN Null ELSE Returned(Reverse(path))
  /\ pc' = "found"
  /\ UNCHANGED <<graph, startArg, info, adj, stack, path, analysis, calls, firstResult, curArg, hint, narration>>
  /\ UNCHANGED solvableFromState
  /\ UNCHANGED gameVars
  /\ UNCHANGED solveVars

\* The loop's exit: return path.reverse().
LoopExit ==
  /\ pc = "loop"
  /\ Len(stack) = 0
  /\ result' = Returned(Reverse(path))
  /\ pc' = "found"
  /\ UNCHANGED <<graph, startArg, info, adj, stack, path, analysis, calls, firstResult, curArg, hint, narration>>
  /\ UNCHANGED solvableFromState
  /\ UNCHANGED gameVars
  /\ UNCHANGED solveVars

\* getHint(graph, c), before any findEulerianPath call of the run.
GetHint(c) ==
  /\ pc = "idle"
  /\ calls = 0
  /\ curArg' = c
  /\ hint' = getHint(graph, c)
  /\ pc' = "hinted"
  /\ UNCHANGED <<graph, startArg, info, adj, stack, path, result, analysis, calls,
                 firstResult, narration>>
  /\ UNCHANGED solvableFromState
  /\ UNCHANGED gameVars
  /\ UNCHANGED solveVars

\* getSolutionSteps(graph, s), before any findEulerianPath call of the run.
GetSolutionSteps(s) ==
  /\ pc = "idle"
  /\ calls = 0
  /\ curArg' = s
  /\ narration' = getSolutionSteps(graph, s)
  /\ pc' = "narrated"
  /\ UNCHANGED <<graph, startArg, info, adj, stack, path, result, analysis, calls,
                 firstResult, hint>>
  /\ UNCHANGED solvableFromState
  /\ UNCHANGED gameVars
  /\ UNCHANGED solveVars

\* isSolvableFromState(graph, c), before any findEulerianPath call of the run.
IsSolvableFromState(c) ==
  /\ pc = "idle"
  /\ calls = 0
  /\ curArg' = c
  /\ solvableFromState' = isSolvableFromState(graph, c)
  /\ pc' = "judged"
  /\ UNCHANGED <<graph, startArg, info, adj, stack, path, result, analysis, calls,
                 firstResult, hint, narration>>
  /\ UNCHANGED gameVars
  /\ UNCHANGED solveVars

\* The caller takes the result; the call's working state is dropped.
Return ==
  /\ pc \in {"found", "classified", "analyzed", "hinted", "narrated", "judged"}
  /\ pc' = "idle"
  /\ calls' = IF pc = "found" THEN calls + 1 ELSE calls
  /\ firstResult' = IF pc = "found" /\ calls = 0 THEN result ELSE firstResult
  /\ info' = NoInfo
  /\ adj' = <<>>
  /\ stack' = <<>>
  /\ path' = <<>>
  /\ result' = NoResult
  /\ analysis' = NoAnalysis
  /\ curArg' = NoNode
  /\ hint' = NoHint
  /\ narration' = NoSteps
  /\ solvableFromState' = NoVerdict
  /\ UNCHANGED <<graph, startArg>>
  /\ UNCHANGED gameVars
  /\ UNCHANGED solveVars

Next ==
  \/ Classify
  \/ Analyze
  \/ \E s \in StartArgs(graph) : FindBegin(s)
  \/ LoopStep
  \/ LoopExit
  \/ \E c \in Range(graph.nodes) \cup {NoNode} : GetHint(c)
  \/ \E s \in StartArgs(graph) : GetSolutionSteps(s)
  \/ \E c \in Range(graph.nodes) : IsSolvableFromState(c)
  \/ Return

Spec == Init /\ [][Next]_vars

\* findEulerianPath is synchronous: once the while loop is entered its
\* iterations and its return run to completion without interruption.
SpecFair == Spec /\ WF_vars(LoopStep) /\ WF_vars(LoopExit)

\* ------------------------------------------------------------------ useGame
\* The operations of the hook, each run on the state of the latest render.

\* getHint for the game as it stands, the call of handleHint.
HintNow == getHint(Value(heap, gameState.graph), gameState.currentNode)

resetGame ==
  LET c == cloneGraph(Dropped(heap), levelGraph(level), 0)
  IN  /\ heap' = c.heap
      /\ gameState' = FreshGame(c.graph)
      /\ followedHints' = TRUE
      /\ UNCHANGED level
      /\ UNCHANGED solverVars
      /\ UNCHANGED solveVars

loadLevel(newLevel) ==
  LET c == cloneGraph(Dropped(heap), levelGraph(newLevel), 0)
  IN  /\ level' = newLevel
      /\ heap' = c.heap
      /\ gameState' = FreshGame(c.graph)
      /\ followedHints' = TRUE
      /\ UNCHANGED solverVars
      /\ UNCHANGED solveVars

selectStartNode(nodeId) ==
  /\ IF gameState.gameStatus # "idle"
       THEN UNCHANGED <<gameState, followedHints>>
     ELSE /\ gameState' = [gameState EXCEPT !.currentNode = nodeId,
                                            !.path = <<nodeId>>,
                                            !.gameStatus = "playing"]
          /\ followedHints' = (followedHints /\ ~HintNow.isNull
                                 /\ HintNow.nextNode = nodeId)
  /\ UNCHANGED <<level, heap>>
  /\ UNCHANGED solverVars
  /\ UNCHANGED solveVars

\* The win and lose checks of makeMove, testing for a stuck player first.
StatusAfter_lostFirst(remainingEdges, available) ==
  IF available = 0 THEN "lost"
  ELSE IF remainingEdges = 0 THEN "won"
  ELSE "playing"

\* The win and lose checks of makeMove.
StatusAfter(remainingEdges, available) ==
  IF remainingEdges = 0 THEN "won"
  ELSE IF available = 0 THEN "lost"
  ELSE "playing"

\* What makeMove returns for the game gs in the store h, with the store and the
\* game state it sets.
Moved(h, gs, targetNodeId) ==
  LET g == gs.graph
      edge == getEdgeBetween(h, g, gs.currentNode, targetNodeId)
  IN  IF gs.gameStatus # "playing" \/ gs.currentNode = NoNode
        THEN [success |-> FALSE, message |-> "Game not in progress",
              gameWon |-> FALSE, gameLost |-> FALSE, heap |-> h, gameState |-> gs]
      ELSE IF targetNodeId = gs.currentNode
        THEN [success |-> FALSE, message |-> "Already at this node",
              gameWon |-> FALSE, gameLost |-> FALSE, heap |-> h, gameState |-> gs]
      ELSE IF edge = 0
        THEN [success |-> FALSE, message |-> "No bridge connects these locations!",
              gameWon |-> FALSE, gameLost |-> FALSE, heap |-> h, gameState |-> gs]
      ELSE LET c == cloneGraph(h, g, FreshGen(g))
               newGraph == c.graph
               edgeToUpdate == FindById(c.heap, newGraph, Deref(h, g.edges[edge]).id)
               h2 == IF edgeToUpdate # 0
                       THEN SetCrossed(c.heap, newGraph.edges[edgeToUpdate])
                     ELSE c.heap
               remainingEdges == countRemainingEdges(Value(h2, newGraph))
               availableFromTarget == getAvailableEdges(h2, newGraph, targetNodeId)
               newStatus == StatusAfter(remainingEdges, Cardinality(availableFromTarget))
           IN  [success |-> TRUE,
                message |-> IF newStatus = "won" THEN "Victory!"
                            ELSE IF newStatus = "lost" THEN "No more valid moves!"
                            ELSE "undefined",
                gameWon |-> newStatus = "won",
                gameLost |-> newStatus = "lost",
                heap |-> h2,
                gameState |-> [graph |-> newGraph,
                               currentNode |-> targetNodeId,
                               path |-> Append(gs.path, targetNodeId),
                               crossedEdges |-> gs.crossedEdges
                                                  \cup {Deref(h, g.edges[edge]).id},
                               gameStatus |-> newStatus,
                               moveCount |-> gs.moveCount + 1]]

\* makeMove counting a rejected move as well.
makeMove_countsRejected(targetNodeId) ==
  LET m == Moved(heap, gameState, targetNodeId)
  IN  /\ \/ gameState.moveCount < MaxMoves
         \/ followedHints /\ ~HintNow.isNull /\ HintNow.nextNode = targetNodeId
      /\ heap' = m.heap
      /\ gameState' = IF m.success THEN m.gameState
                      ELSE [gameState EXCEPT !.moveCount = @ + 1]
      /\ followedHints' = IF m.success
                            THEN followedHints /\ ~HintNow.isNull
                                   /\ HintNow.nextNode = targetNodeId
                          ELSE followedHints
      /\ UNCHANGED level
      /\ UNCHANGED solverVars
      /\ UNCHANGED solveVars

makeMove(targetNodeId) ==
  LET m == Moved(heap, gameState, targetNodeId)
  IN  /\ \/ gameState.moveCount < MaxMoves
         \/ followedHints /\ ~HintNow.isNull /\ HintNow.nextNode = targetNodeId
      /\ heap' = m.heap
      /\ gameState' = m.gameState
      /\ followedHints' = IF m.success
                            THEN followedHints /\ ~HintNow.isNull
                                   /\ HintNow.nextNode = targetNodeId
                          ELSE followedHints
      /\ UNCHANGED level
      /\ UNCHANGED solverVars
      /\ UNCHANGED solveVars

\* The loop of undoMove taking the last uncrossed edge between two nodes where
\* makeMove takes the first.
RECURSIVE Replay_lastMatch(_, _, _, _, _)
Replay_lastMatch(h, g, newPath, i, newCrossedEdges) ==
  IF i >= Len(newPath) THEN [heap |-> h, crossedEdges |-> newCrossedEdges]
  ELSE LET hits == {k \in DOMAIN g.edges :
                      /\ ~Deref(h, g.edges[k]).crossed
                      /\ Connects(Deref(h, g.edges[k]), newPath[i], newPath[i + 1])}
           edge == IF hits = {} THEN 0 ELSE CHOOSE k \in hits : \A j \in hits : j <= k
           id == Deref(h, g.edges[edge]).id
       IN  IF edge # 0
             THEN Replay_lastMatch(SetCrossed(h, g.edges[edge]), g, newPath, i + 1,
                                   newCrossedEdges \cup {id})
           ELSE Replay_lastMatch(h, g, newPath, i + 1, newCrossedEdges)

\* The loop of undoMove: the moves of newPath made again on the graph g.
RECURSIVE Replay(_, _, _, _, _)
Replay(h, g, newPath, i, newCrossedEdges) ==
  IF i >= Len(newPath) THEN [heap |-> h, crossedEdges |-> newCrossedEdges]
  ELSE LET edge == getEdgeBetween(h, g, newPath[i], newPath[i + 1])
           id == Deref(h, g.edges[edge]).id
           edgeToUpdate == FindById(h, g, id)
       IN  IF edge # 0 /\ edgeToUpdate # 0
             THEN Replay(SetCrossed(h, g.edges[edgeToUpdate]), g, newPath, i + 1,
                         newCrossedEdges \cup {id})
           ELSE Replay(h, g, newPath, i + 1, newCrossedEdges)

\* Undone leaving moveCount as it was.
Undone_keepsCount(l, h, gs) ==
  LET newPath == SubSeq(gs.path, 1, Len(gs.path) - 1)
      c == cloneGraph(h, levelGraph(l), FreshGen(gs.graph))
      r == Replay(c.heap, c.graph, newPath, 1, {})
  IN  [heap |-> r.heap,
       gameState |-> [graph |-> c.graph,
                      currentNode |-> newPath[Len(newPath)],
                      path |-> newPath,
                      crossedEdges |-> r.crossedEdges,
                      gameStatus |-> "playing",
                      moveCount |-> gs.moveCount]]

\* What undoMove makes of a game with at least one move: the store and the
\* game state it sets.
Undone(l, h, gs) ==
  LET newPath == SubSeq(gs.path, 1, Len(gs.path) - 1)
      c == cloneGraph(h, levelGraph(l), FreshGen(gs.graph))
      r == Replay(c.heap, c.graph, newPath, 1, {})
  IN  [heap |-> r.heap,
       gameState |-> [graph |-> c.graph,
                      currentNode |-> newPath[Len(newPath)],
                      path |-> newPath,
                      crossedEdges |-> r.crossedEdges,
                      gameStatus |-> "playing",
                      moveCount |-> gs.moveCount - 1]]

undoMove ==
  /\ IF Len(gameState.path) <= 1
       THEN UNCHANGED <<gameState, heap, followedHints>>
     ELSE /\ heap' = Undone(level, heap, gameState).heap
          /\ gameState' = Undone(level, heap, gameState).gameState
          /\ followedHints' = FALSE
  /\ UNCHANGED level
  /\ UNCHANGED solverVars
  /\ UNCHANGED solveVars

\* The game on its own: the solver is called through HintNow only.
InitGame ==
  /\ graph = levels[1]
  /\ SolverIdle
  /\ GameConstructed

NextGame ==
  \/ \E nodeId \in Range(gameState.graph.nodes) : selectStartNode(nodeId)
  \/ \E targetNodeId \in Range(gameState.graph.nodes) : makeMove(targetNodeId)
  \/ undoMove
  \/ resetGame
  \/ \E newLevel \in DOMAIN levels : loadLevel(newLevel)

SpecGame == InitGame /\ [][NextGame]_vars

\* ------------------------------------------------------------------ AI Solve
\* handleSolve is an async function: it runs to its first await, and each timer
\* resumes it for one more stretch.  The selectStartNode and makeMove it calls
\* are the callbacks of the render in which it was created; they read the
\* gameState of that render (closure) and write through setGameState's
\* functional update, which works on the state at the time of the call.

\* The generation that holds the graph of the closure.
HeldGen == closure.graph.edges[1].gen

\* resetGame's new game: while a handleSolve call holds a closure its graph
\* stays in the store, and the new graph takes the other generation.
Reset(h, l, held, k) ==
  IF held THEN cloneGraph(h, levelGraph(l), k)
  ELSE cloneGraph(Dropped(h), levelGraph(l), 0)

\* The end of handleSolve: the closure goes, and its graph with it unless the
\* game state holds it.
SolveEnds(h, gs) ==
  /\ solveRun' = RunDone
  /\ closure' = NoClosure
  /\ isSolving' = FALSE
  /\ heap' = IF gs.graph.edges[1].gen = HeldGen THEN h
             ELSE [h EXCEPT !.snap[HeldGen] = <<>>]

\* A click on AI Solve, up to the first await.  One call in a game.
handleSolve ==
  /\ gameState.gameStatus # "won" /\ ~isSolving
  /\ solveRun.pc = "none"
  /\ LET analysis_ == analyzePuzzle(Value(heap, levelGraph(level)))
         solution == getSolutionSteps(Value(heap, levelGraph(level)), NoStart)
         runs == analysis_.solvable /\ ~solution.isNull
         c == Reset(heap, level, runs, FreshGen(gameState.graph))
     IN  /\ heap' = c.heap
         /\ gameState' = FreshGame(c.graph)
         /\ followedHints' = TRUE
         /\ isSolving' = runs
         /\ solveRun' = IF runs THEN [pc |-> "start", path |-> solution.path, i |-> 1]
                        ELSE NoRun
         /\ closure' = IF runs THEN gameState ELSE NoClosure
  /\ UNCHANGED level
  /\ UNCHANGED solverVars

\* The 800 ms timer: selectStartNode(path[0]) of the closure.
SolveStart ==
  /\ solveRun.pc = "start"
  /\ LET gs == IF closure.gameStatus # "idle" THEN gameState
               ELSE [gameState EXCEPT !.currentNode = solveRun.path[1],
                                      !.path = <<solveRun.path[1]>>,
                                      !.gameStatus = "playing"]
     IN  /\ gameState' = gs
         /\ IF Len(solveRun.path) >= 2
              THEN /\ solveRun' = [solveRun EXCEPT !.pc = "move", !.i = 2]
                   /\ UNCHANGED <<heap, isSolving, closure>>
            ELSE SolveEnds(heap, gs)
  /\ UNCHANGED <<level, followedHints>>
  /\ UNCHANGED solverVars

\* The 700 ms and 300 ms timers of one loop iteration: makeMove(path[i]) of the
\* closure, and after the last iteration setIsSolving(false).
SolveMove ==
  /\ solveRun.pc = "move"
  /\ LET m == Moved(heap, closure, solveRun.path[solveRun.i])
         gs == IF ~m.success THEN gameState
               ELSE [gameState EXCEPT !.graph = m.gameState.graph,
                                      !.currentNode = m.gameState.currentNode,
                                      !.path = Append(gameState.path, solveRun.path[solveRun.i]),
                                      !.crossedEdges = m.gameState.crossedEdges,
                                      !.gameStatus = m.gameState.gameStatus,
                                      !.moveCount = gameState.moveCount + 1]
     IN  /\ gameState' = gs
         /\ IF solveRun.i < Len(solveRun.path)
              THEN /\ solveRun' = [solveRun EXCEPT !.i = @ + 1]
                   /\ heap' = m.heap
                   /\ UNCHANGED <<isSolving, closure>>
            ELSE SolveEnds(m.heap, gs)
  /\ UNCHANGED <<level, followedHints>>
  /\ UNCHANGED solverVars

\* A click on Reset, at any time.  A waiting handleSolve call is not told.
handleReset ==
  /\ LET c == Reset(heap, level, Waiting, 1 - HeldGen)
     IN  /\ heap' = c.heap
         /\ gameState' = FreshGame(c.graph)
  /\ followedHints' = TRUE
  /\ isSolving' = FALSE
  /\ solveRun' = IF Waiting THEN solveRun ELSE NoRun
  /\ UNCHANGED <<level, closure>>
  /\ UNCHANGED solverVars

InitSolve == InitGame

\* The player's other inputs come while no handleSolve call is waiting; the
\* game a returned call leaves is reset before it is played on.
NextSolve ==
  \/ \E nodeId \in Range(gameState.graph.nodes) :
       solveRun.pc = "none" /\ selectStartNode(nodeId)
  \/ \E targetNodeId \in Range(gameState.graph.nodes) :
       solveRun.pc = "none" /\ makeMove(targetNodeId)
  \/ solveRun.pc = "none" /\ undoMove
  \/ \E newLevel \in DOMAIN levels : solveRun.pc = "none" /\ loadLevel(newLevel)
  \/ handleSolve
  \/ SolveStart
  \/ SolveMove
  \/ handleReset

SpecSolve == InitSolve /\ [][NextSolve]_vars

\* ------------------------------------------------------------------ properties
\* Graph notions the properties are stated in, defined apart from the code.

\* Number of edge ends at v (a self-loop has both its ends at v).
RECURSIVE EndsAt(_, _)
EndsAt(es, v) ==
  IF es = <<>> THEN 0
  ELSE (IF Head(es).from = v THEN 1 ELSE 0) + (IF Head(es).to = v THEN 1 ELSE 0)
       + EndsAt(Tail(es), v)

OddSet(g) == {v \in Range(g.nodes) : EndsAt(g.edges, v) % 2 = 1}

OddCount(g) == Cardinality(OddSet(g))

\* The nodes of the set S, in the node order of g.
InNodeOrder(g, S) == SelectSeq(g.nodes, LAMBDA v : v \in S)

AllUncrossed(g) == \A i \in DOMAIN g.edges : ~g.edges[i].crossed

Uncrossed(g) == {i \in DOMAIN g.edges : ~g.edges[i].crossed}

\* Nodes reachable from the set S over uncrossed edges.
RECURSIVE ReachFrom(_, _)
ReachFrom(g, S) ==
  LET T == S \cup {g.edges[i].to : i \in {j \in Uncrossed(g) : g.edges[j].from \in S}}
             \cup {g.edges[i].from : i \in {j \in Uncrossed(g) : g.edges[j].to \in S}}
  IN  IF T = S THEN S ELSE ReachFrom(g, T)

\* The uncrossed edges form one connected set.
EdgesConnected(g) ==
  Uncrossed(g) # {} =>
    LET first == CHOOSE i \in Uncrossed(g) : TRUE
        reached == ReachFrom(g, {g.edges[first].from})
    IN  \A j \in Uncrossed(g) : g.edges[j].from \in reached

\* seq walks every uncrossed edge of g exactly once: between every pair of
\* nodes it takes as many steps as there are uncrossed edges joining them.
IsEulerTrail(g, seq) ==
  /\ Len(seq) = Cardinality(Uncrossed(g)) + 1
  /\ \A a \in Range(g.nodes) : \A b \in Range(g.nodes) :
       Cardinality({k \in 1..(Len(seq) - 1) : {seq[k], seq[k + 1]} = {a, b}})
         = Cardinality({i \in Uncrossed(g) : Connects(g.edges[i], a, b)})

\* g with one more uncrossed edge between a and b.
WithEdge(g, a, b) ==
  [g EXCEPT !.edges = Append(g.edges, [id |-> Len(g.edges) + 1, from |-> a, to |-> b,
                                       crossed |-> FALSE])]

\* C1: for every graph with all edges uncrossed whose edges form one connected
\* set and which has 0 or 2 odd-degree nodes, findEulerianPath returns, for any
\* start argument, a node sequence of length remainingEdgeCount + 1 that uses
\* every edge exactly once, consecutive nodes joined by distinct edges.
C1_EulerTrailForAnyStart ==
  (pc = "found" /\ AllUncrossed(graph) /\ EdgesConnected(graph) /\ OddCount(graph) \in {0, 2})
    => (~result.isNull /\ IsEulerTrail(graph, result.seq))

\* C2: for every graph with 0 odd-degree nodes hasEulerianPath reports type
\* circuit and its startNodes are exactly the nodes of degree greater than 0.
C2_CircuitStartsHaveEdges ==
  (pc = "classified" /\ OddCount(graph) = 0)
    => /\ info.type = "circuit"
       /\ Range(info.startNodes) = {v \in Range(graph.nodes) : EndsAt(graph.edges, v) > 0}

\* C3: for every graph with exactly 2 odd-degree nodes hasEulerianPath reports
\* type path and its startNodes are exactly those two nodes, in node order;
\* [A, D] for the path graph A-B, B-C, C-D.
C3_PathStartsAreTheOddNodes ==
  /\ (pc = "classified" /\ OddCount(graph) = 2)
       => /\ info.hasPath
          /\ info.type = "path"
          /\ info.startNodes = InNodeOrder(graph, OddSet(graph))
  /\ (pc = "classified" /\ graph = pathGraph) => info.startNodes = <<"A", "D">>

C3_Witness ==
  pc = "classified" /\ graph = pathGraph /\ info.type = "path" /\ Len(info.startNodes) = 2

\* C4: for every graph whose number of odd-degree nodes is neither 0 nor 2,
\* hasEulerianPath reports hasPath = false, type none and no start node; the
\* square with both diagonals (degrees 3, 3, 3, 3) is classified none.
C4_OtherOddCountsAreNone ==
  /\ (pc = "classified" /\ OddCount(graph) \notin {0, 2})
       => (~info.hasPath /\ info.type = "none" /\ info.startNodes = <<>>)
  /\ (pc = "classified" /\ graph = squareDiagonals)
       => (info.type = "none" /\ \A v \in Range(graph.nodes) : EndsAt(graph.edges, v) = 3)

C4_Witness ==
  pc = "classified" /\ graph = squareDiagonals /\ OddCount(graph) = 4 /\ info.type = "none"

\* C5: whenever the graph has an odd-degree-node count other than 0 or 2,
\* findEulerianPath returns null for every start argument and builds no path:
\* it never enters the stack loop and leaves stack, output and adjacency empty.
C5_NullWithoutBuilding ==
  OddCount(graph) \notin {0, 2}
    => /\ pc # "loop"
       /\ pc = "found" => (result = Null /\ stack = <<>> /\ path = <<>> /\ adj = <<>>)

C5_Witness ==
  pc = "found" /\ OddCount(graph) = 4 /\ startArg # NoStart /\ result = Null

\* The start node the call resolves: the argument when it is a candidate of
\* hasEulerianPath, else the first candidate.
ExpectedStart ==
  IF startArg \in Range(info.startNodes) THEN startArg ELSE info.startNodes[1]

NoUncrossedEdgeAt(g, v) ==
  \A i \in Uncrossed(g) : g.edges[i].from # v /\ g.edges[i].to # v

\* C6 as claimed: when the graph passes the parity check but the resolved start
\* node has no uncrossed incident edge, findEulerianPath returns null.
C6_NullForEdgelessStart ==
  (pc = "found" /\ info.hasPath /\ NoUncrossedEdgeAt(graph, ExpectedStart))
    => result = Null

\* C6 as amended: in that case findEulerianPath returns the one-element
\* sequence holding the resolved start node, not null.
C6_SingletonForEdgelessStart ==
  (pc = "found" /\ info.hasPath /\ NoUncrossedEdgeAt(graph, ExpectedStart))
    => result = Returned(<<ExpectedStart>>)

C6_Witness ==
  /\ pc = "found" /\ info.hasPath /\ NoUncrossedEdgeAt(graph, ExpectedStart)
  /\ graph.edges # <<>> /\ Len(result.seq) = 1

\* C7: for every graph that passes the parity check, the first element of the
\* sequence findEulerianPath(graph, startNode) returns is startNode when it is
\* one of hasEulerianPath's start candidates, and the first candidate when
\* startNode is omitted or is no candidate.
C7_FirstElementIsResolvedStart ==
  (pc = "found" /\ OddCount(graph) \in {0, 2})
    => LET candidates == hasEulerianPath(graph).startNodes
       IN  /\ ~result.isNull /\ Len(result.seq) >= 1
           /\ result.seq[1] = IF startArg # NoStart /\ Includes(candidates, startArg)
                                THEN startArg ELSE candidates[1]

C7_Witness ==
  /\ pc = "found" /\ info.type = "path" /\ Len(result.seq) > 2
  /\ startArg = info.startNodes[2] /\ result.seq[1] = startArg

\* C8: findEulerianPath keeps its working state private to one call: no step
\* of it changes any field of any edge of the caller's graph, and a second
\* call with the same graph and start node returns what the first returned.
C8_GraphUntouchedAndRepeatable ==
  [][/\ graph' = graph
     /\ (pc' = "found" /\ calls' = 1) => result' = firstResult']_vars

C8_Witness ==
  pc = "found" /\ calls = 1 /\ Len(result.seq) > 2 /\ result = firstResult

\* C9: for every graph with more than 2 odd-degree nodes analyzePuzzle returns
\* at most 3 modifications, and adding an edge between the endpoints of any
\* returned modification of type add lowers the odd-degree count by exactly 2.
C9_AtMostThreeAndAddsFixTwo ==
  (pc = "analyzed" /\ OddCount(graph) > 2)
    => /\ analysis.hasModifications
       /\ Len(analysis.modifications) <= 3
       /\ \A k \in DOMAIN analysis.modifications :
            LET m == analysis.modifications[k]
            IN  m.type = "add"
                  => OddCount(WithEdge(graph, m.from, m.to)) = OddCount(graph) - 2

C9_Witness ==
  /\ pc = "analyzed" /\ OddCount(graph) > 4 /\ Len(analysis.modifications) = 3
  /\ \A k \in DOMAIN analysis.modifications : analysis.modifications[k].type = "add"

\* C10: on the original Koenigsberg level graph (4 nodes, 7 edges, degrees
\* 5, 3, 3, 3) hasEulerianPath reports none, and analyzePuzzle returns
\* solvable = false, oddDegreeCount = 4 and at least one modification of type add.
C10_KoenigsbergIsUnsolvable ==
  graph = koenigsbergOriginal
    => /\ Len(graph.nodes) = 4 /\ Len(graph.edges) = 7
       /\ EndsAt(graph.edges, "C") = 5
       /\ \A v \in {"A", "B", "D"} : EndsAt(graph.edges, v) = 3
       /\ pc = "classified" => (~info.hasPath /\ info.type = "none")
       /\ pc = "analyzed"
            => /\ ~analysis.solvable
               /\ analysis.oddDegreeCount = 4
               /\ \E k \in DOMAIN analysis.modifications :
                    analysis.modifications[k].type = "add"

C10_Witness ==
  /\ graph = koenigsbergOriginal /\ pc = "analyzed"
  /\ analysis.modifications[1] = [type |-> "add", from |-> "A", to |-> "C"]

\* ---- properties of the advisor, the hint engine and the narrator

\* g with one more uncrossed edge for every modification of type add in mods.
RECURSIVE WithAdds(_, _)
WithAdds(g, mods) ==
  IF mods = <<>> THEN g
  ELSE WithAdds(IF Head(mods).type = "add" THEN WithEdge(g, Head(mods).from, Head(mods).to)
                ELSE g,
                Tail(mods))

\* C11: for every graph with more than 2 odd-degree nodes, applying all
\* modifications of type add that analyzePuzzle returns yields a graph with 0
\* or 2 odd-degree nodes, one that hasEulerianPath classifies as solvable.
C11_AddsRestoreSolvability ==
  (pc = "analyzed" /\ OddCount(graph) > 2)
    => LET fixed == WithAdds(graph, analysis.modifications)
       IN  OddCount(fixed) \in {0, 2} /\ hasEulerianPath(fixed).hasPath

\* Number of uncrossed edge ends at v.
UEndsAt(g, v) ==
  EndsAt(SelectSeq(g.edges, LAMBDA e : ~e.crossed), v)

UOddSet(g) == {v \in Range(g.nodes) : UEndsAt(g, v) % 2 = 1}

\* Euler's theorem on the uncrossed edges: they admit a trail of at least one
\* edge that starts at s and uses each of them exactly once.
TrailExistsFrom(g, s) ==
  /\ s \in Range(g.nodes)
  /\ UEndsAt(g, s) > 0
  /\ EdgesConnected(g)
  /\ UOddSet(g) = {} \/ (Cardinality(UOddSet(g)) = 2 /\ s \in UOddSet(g))

\* C12: with no current node getHint returns none exactly when hasEulerianPath
\* reports no Eulerian path; otherwise its nextNode is the first of the valid
\* start candidates, and the message is the odd-degree "Start at" message if
\* and only if the kind is path.
C12_StartHint ==
  (pc = "hinted" /\ curArg = NoNode)
    => /\ hint.isNull <=> ~hasEulerianPath(graph).hasPath
       /\ ~hint.isNull
            => /\ Includes(hasEulerianPath(graph).startNodes, hint.nextNode)
               /\ hint.nextNode = hasEulerianPath(graph).startNodes[1]
               /\ (hint.message = "startAt") <=> (OddCount(graph) = 2)
               /\ hint.message \in {"startAt", "anywhere"}

C12_Witness ==
  /\ pc = "hinted" /\ curArg = NoNode /\ ~hint.isNull
  /\ hint.message = "startAt" /\ hint.nextNode # graph.nodes[1]

\* C13: with a current node, whenever the uncrossed edges of the graph admit an
\* Eulerian trail of at least one edge that starts at currentNode, getHint
\* returns a nextNode, the node that follows currentNode in such a trail.
C13_HintWheneverTrailExists ==
  (pc = "hinted" /\ curArg # NoNode /\ TrailExistsFrom(graph, curArg))
    => /\ ~hint.isNull
       /\ \E i \in Uncrossed(graph) : Connects(graph.edges[i], curArg, hint.nextNode)

\* C15: getSolutionSteps returns steps whose first entry is the path's start
\* node with no edge; every later entry carries an uncrossed edge of the graph
\* that joins the two consecutive path nodes of that step, and no edge appears
\* in two steps, parallel edges included.
C15_StepsCarryDistinctUncrossedEdges ==
  (pc = "narrated" /\ ~narration.isNull)
    => LET steps == narration.steps
       IN  /\ Len(steps) >= 1
           /\ steps[1].node = narration.path[1] /\ steps[1].edge = 0
           /\ \A k \in 2..Len(steps) :
                \E i \in Uncrossed(graph) :
                   /\ graph.edges[i].id = steps[k].edge
                   /\ Connects(graph.edges[i], steps[k].from, steps[k].node)
           /\ \A k \in 2..Len(steps) : \A l \in 2..Len(steps) :
                steps[k].edge = steps[l].edge => k = l

\* C16: for a graph with some crossed edges whose uncrossed edges are connected
\* and admit an Eulerian trail starting at node s, findEulerianPath(graph, s)
\* returns a sequence that starts at s, has length remainingEdgeCount + 1 and
\* uses every uncrossed edge exactly once and no crossed edge.
C16_SolvesTheUncrossedSubgraph ==
  (pc = "found" /\ ~AllUncrossed(graph) /\ startArg # NoStart
     /\ TrailExistsFrom(graph, startArg))
    => /\ ~result.isNull
       /\ Len(result.seq) = countRemainingEdges(graph) + 1
       /\ result.seq[1] = startArg
       /\ IsEulerTrail(graph, result.seq)

\* The stepwise loop and the one-call form of findEulerianPath agree.
StepwiseAgrees == pc = "found" => result = findEulerianPath(graph, startArg)

\* ---- properties of the game

\* The level graph is one that analyzePuzzle reports as solvable.
LevelSolvable(l) == analyzePuzzle(levels[l]).solvable

\* C14: on every shipped level that analyzePuzzle reports as solvable, a player
\* who selects the start node getHint gives and then always moves to the
\* nextNode getHint gives for the current game state always receives a hint,
\* has every such move accepted by makeMove, and is never lost.
C14_HintedPlayNeverStuck ==
  (followedHints /\ LevelSolvable(level))
    => /\ gameState.gameStatus # "lost"
       /\ gameState.gameStatus = "idle" => ~HintNow.isNull
       /\ gameState.gameStatus = "playing"
            => /\ ~HintNow.isNull
               /\ HintNow.nextNode # gameState.currentNode
               /\ getEdgeBetween(heap, gameState.graph, gameState.currentNode,
                                 HintNow.nextNode) # 0

\* A step that is a successful makeMove: no other operation adds to moveCount.
MoveMade ==
  /\ gameState'.moveCount = gameState.moveCount + 1
  /\ Moved(heap, gameState, gameState'.currentNode).success

\* No edge object of a level graph has been written.
CanonUntouched == \A l \in DOMAIN levels : heap.canon[l] = levels[l].edges

\* The game-state graph holds objects of its own, copies of the level's edges
\* in everything but the crossed flag.
OwnCopy ==
  /\ gameState.graph.nodes = levels[level].nodes
  /\ DOMAIN gameState.graph.edges = DOMAIN levels[level].edges
  /\ \A i \in DOMAIN gameState.graph.edges :
       /\ gameState.graph.edges[i].space = "snap"
       /\ [Deref(heap, gameState.graph.edges[i]) EXCEPT !.crossed = FALSE]
            = levels[level].edges[i]
  /\ gameState.gameStatus = "idle" => Value(heap, gameState.graph) = levels[level]

\* The step leaves every object of the graph it replaces as it was.
SnapshotKept ==
  \A i \in DOMAIN gameState.graph.edges :
     LET r == gameState.graph.edges[i]
     IN  (r.space = "snap" /\ r.idx \in DOMAIN heap'.snap[r.gen]
            /\ gameState'.graph.edges[1] # gameState.graph.edges[1])
           => Deref(heap', r) = Deref(heap, r)

\* C17: cloneGraph returns a copy with equal nodes and edges that shares no
\* edge record with the original: across any sequence of selectStartNode,
\* makeMove, undoMove, resetGame and loadLevel no edge of a canonical level
\* graph ever becomes crossed, and no operation changes the game-state graph
\* it replaces.
C17_ClonesAreIndependent ==
  [][CanonUntouched' /\ OwnCopy' /\ SnapshotKept]_vars

\* A move has crossed an edge of the game-state graph while the graph it
\* replaced is still held with that edge uncrossed.
C17_Witness ==
  /\ gameState.moveCount >= 2
  /\ LET new == gameState.graph.edges
         k == 1 - new[1].gen
     IN  /\ DOMAIN heap.snap[k] = DOMAIN new
         /\ \E i \in DOMAIN new :
              Deref(heap, new[i]).crossed /\ ~heap.snap[k][i].crossed

\* C18: across any sequence of selectStartNode, makeMove, undoMove and
\* resetGame, every successful makeMove crosses exactly one edge, one that was
\* uncrossed immediately before the move and joins the current node to the
\* target, so that no bridge is crossed twice within one game.
C18_MoveCrossesAFreshEdge ==
  [][MoveMade =>
       LET old == Value(heap, gameState.graph)
           new == Value(heap', gameState'.graph)
       IN  /\ DOMAIN new.edges = DOMAIN old.edges
           /\ \E i \in DOMAIN old.edges :
                /\ ~old.edges[i].crossed /\ new.edges[i].crossed
                /\ Connects(old.edges[i], gameState.currentNode, gameState'.currentNode)
                /\ old.edges[i].id \notin gameState.crossedEdges
                /\ gameState'.crossedEdges = gameState.crossedEdges \cup {old.edges[i].id}
                /\ \A j \in DOMAIN old.edges \ {i} : new.edges[j] = old.edges[j]
           /\ Cardinality(gameState'.crossedEdges) = gameState'.moveCount
    ]_vars

\* A second bridge between the same two land masses has been crossed.
C18_Witness ==
  /\ gameState.moveCount >= 2
  /\ \E i, j \in DOMAIN gameState.graph.edges :
       LET a == Deref(heap, gameState.graph.edges[i])
           b == Deref(heap, gameState.graph.edges[j])
       IN  i # j /\ a.crossed /\ b.crossed /\ Connects(a, b.from, b.to)

\* C19: after every successful makeMove the game status is won if and only if
\* no uncrossed edge remains, lost if and only if uncrossed edges remain and
\* none of them is incident to the new current node, and playing otherwise.
C19_StatusAfterMove ==
  [][MoveMade =>
       LET g == Value(heap', gameState'.graph)
           status == gameState'.gameStatus
       IN  /\ status \in {"won", "lost", "playing"}
           /\ status = "won" <=> Uncrossed(g) = {}
           /\ status = "lost"
                <=> (Uncrossed(g) # {} /\ NoUncrossedEdgeAt(g, gameState'.currentNode))
    ]_vars

\* The player is stuck with bridges left.
C19_Witness ==
  /\ gameState.gameStatus = "lost"
  /\ gameState.moveCount = Len(gameState.path) - 1
  /\ Uncrossed(Value(heap, gameState.graph)) # {}

\* C20: for any reachable game state with a current node, a successful makeMove
\* followed by undoMove restores the set of crossed edge ids (also with
\* parallel edges), the graph's crossed flags, currentNode, path and moveCount
\* to their values before the move, with status playing.
C20_UndoRestoresTheMove ==
  [][MoveMade =>
       LET u == Undone(level', heap', gameState')
       IN  /\ u.gameState.crossedEdges = gameState.crossedEdges
           /\ Value(u.heap, u.gameState.graph) = Value(heap, gameState.graph)
           /\ u.gameState.currentNode = gameState.currentNode
           /\ u.gameState.path = gameState.path
           /\ u.gameState.moveCount = gameState.moveCount
           /\ u.gameState.gameStatus = "playing"
    ]_vars

\* undoMove has taken back the second crossing of the two bridges A-C of the
\* modified Koenigsberg level: both moves to <<A, C>> are hinted ones, so the
\* path has been shortened to it.
C20_Witness ==
  /\ levels[level] = koenigsbergModified
  /\ ~followedHints
  /\ gameState.path = <<"A", "C">>
  /\ gameState.crossedEdges = {1}
  /\ gameState.gameStatus = "playing"

\* ---- properties of the levels and the advisor, continued

\* C22: every shipped level except konigsberg-original, the only level tagged
\* impossible, is reported solvable by analyzePuzzle; the square-with-diagonals
\* level in particular has an Eulerian path.
C22_OnlyTheImpossibleLevelIsUnsolvable ==
  /\ \A l \in DOMAIN levels :
       difficulty[l] = "impossible" <=> levels[l] = koenigsbergOriginal
  /\ pc = "analyzed"
       => \A l \in DOMAIN levels :
            (graph = levels[l] /\ difficulty[l] # "impossible") => analysis.solvable
  /\ (pc = "classified" /\ graph = squareDiagonals) => info.hasPath

\* C23: for every graph analyzePuzzle and hasEulerianPath agree: solvable equals
\* hasPath, oddDegreeCount is 0 exactly when the type is circuit and 2 exactly
\* when the type is path, and modifications are present only when solvable is
\* false.
C23_AdvisorAgreesWithClassifier ==
  pc = "analyzed"
    => LET h == hasEulerianPath(graph)
       IN  /\ analysis.solvable = h.hasPath
           /\ analysis.oddDegreeCount = 0 <=> h.type = "circuit"
           /\ analysis.oddDegreeCount = 2 <=> h.type = "path"
           /\ h.type = "path" => analysis.oddDegreeNodes = h.startNodes
           /\ analysis.hasModifications => ~analysis.solvable
           /\ analysis.modifications # <<>> => ~analysis.solvable

C23_Witness ==
  /\ pc = "analyzed" /\ analysis.solvable /\ analysis.oddDegreeCount = 2
  /\ hasEulerianPath(graph).type = "path"
  /\ ~AllUncrossed(graph)

\* g without its edge at index i.
WithoutEdge(g, i) ==
  [nodes |-> g.nodes,
   edges |-> SubSeq(g.edges, 1, i - 1) \o SubSeq(g.edges, i + 1, Len(g.edges))]

\* C26: for every graph with more than 2 odd-degree nodes, each modification of
\* type remove that analyzePuzzle returns names the endpoints of an existing
\* edge whose two endpoints are both odd-degree, so that removing that edge
\* lowers the odd-degree count by exactly 2.
C26_RemovesFixTwo ==
  (pc = "analyzed" /\ OddCount(graph) > 2)
    => \A k \in DOMAIN analysis.modifications :
         LET m == analysis.modifications[k]
         IN  m.type = "remove"
               => /\ {m.from, m.to} \subseteq OddSet(graph)
                  /\ \E i \in DOMAIN graph.edges :
                       /\ Connects(graph.edges[i], m.from, m.to)
                       /\ OddCount(WithoutEdge(graph, i)) = OddCount(graph) - 2

\* C25: isSolvableFromState(graph, currentNode) returns true exactly when every
\* edge is crossed or the uncrossed edges admit an Eulerian trail that starts
\* at currentNode.
C25_SolvableIffTrailFromCurrent ==
  pc = "judged"
    => (solvableFromState = TRUE
          <=> (Uncrossed(graph) = {} \/ TrailExistsFrom(graph, curArg)))

\* Edge ids with a used registration on some neighbour list, and the number of
\* used registrations of one id.
UsedEntries(a) ==
  UNION {{<<w, j>> : j \in {k \in DOMAIN a[w] : a[w][k].used}} : w \in DOMAIN a}

Consumed(a) == {a[e[1]][e[2]].edgeId : e \in UsedEntries(a)}

UsedCount(a, id) == Cardinality({e \in UsedEntries(a) : a[e[1]][e[2]].edgeId = id})

\* C29: on every graph that passes the parity check the stack loop of
\* findEulerianPath terminates with an empty stack; every push consumes one
\* uncrossed edge id that was not consumed before (both of its registrations
\* at once), and the returned sequence has at most remainingEdgeCount + 1
\* elements.
C29_LoopTerminatesAndConsumesOnce ==
  /\ [](pc = "loop" => <>(pc = "found" /\ stack = <<>>))
  /\ [](pc = "loop" => \A i \in DOMAIN graph.edges :
                         UsedCount(adj, graph.edges[i].id) \in {0, 2})
  /\ [][(pc = "loop" /\ Len(stack') > Len(stack))
          => \E i \in Uncrossed(graph) :
               /\ graph.edges[i].id \notin Consumed(adj)
               /\ Consumed(adj') = Consumed(adj) \cup {graph.edges[i].id}]_vars
  /\ []((pc = "found" /\ ~result.isNull)
          => /\ Len(result.seq) = Cardinality(Consumed(adj)) + 1
             /\ Len(result.seq) <= countRemainingEdges(graph) + 1)

\* A disconnected graph with a crossed edge or a self-loop, solved to a walk
\* shorter than its uncrossed edge count.
C29_Witness ==
  /\ pc = "found" /\ ~result.isNull /\ stack = <<>>
  /\ ~EdgesConnected(graph)
  /\ \E i \in DOMAIN graph.edges : graph.edges[i].crossed \/ graph.edges[i].from = graph.edges[i].to
  /\ Len(result.seq) >= 2
  /\ Len(result.seq) < countRemainingEdges(graph) + 1

\* C24: in every game state reached by selectStartNode and makeMove, a nextNode
\* that getHint returns for the current node is joined to the current node by
\* an uncrossed edge, and makeMove to it succeeds.
C24_HintedNodeIsAdjacent ==
  (gameState.currentNode # NoNode /\ ~HintNow.isNull)
    => /\ \E i \in Uncrossed(Value(heap, gameState.graph)) :
            Connects(Value(heap, gameState.graph).edges[i],
                     gameState.currentNode, HintNow.nextNode)
       /\ Moved(heap, gameState, HintNow.nextNode).success

\* C27: in every game state reached by selectStartNode, makeMove, undoMove,
\* resetGame and loadLevel, crossedEdges is the set of ids of the edges flagged
\* crossed in the graph, its size is moveCount, and once a start node is
\* selected the path has moveCount + 1 elements and ends at currentNode.
C27_BookkeepingAgrees ==
  LET g == Value(heap, gameState.graph)
  IN  /\ gameState.crossedEdges = {g.edges[i].id : i \in DOMAIN g.edges \ Uncrossed(g)}
      /\ Cardinality(gameState.crossedEdges) = gameState.moveCount
      /\ gameState.gameStatus = "idle"
           => gameState.currentNode = NoNode /\ gameState.path = <<>>
      /\ gameState.gameStatus # "idle"
           => /\ gameState.currentNode # NoNode
              /\ Len(gameState.path) = gameState.moveCount + 1
              /\ gameState.currentNode = gameState.path[Len(gameState.path)]

\* A game off the hinted line on the level with parallel bridges, back at A
\* with both bridges between A and C crossed.
C27_Witness ==
  /\ levels[level] = koenigsbergModified
  /\ ~followedHints
  /\ gameState.moveCount >= 2
  /\ gameState.crossedEdges = {1, 2}
  /\ gameState.currentNode = "A"

\* The rejections of makeMove as the operation's contract names them.
Rejected(targetNodeId) ==
  \/ gameState.gameStatus # "playing"
  \/ targetNodeId = gameState.currentNode
  \/ ~\E i \in Uncrossed(Value(heap, gameState.graph)) :
        Connects(Value(heap, gameState.graph).edges[i], gameState.currentNode, targetNodeId)

\* C30: a makeMove that is rejected (status not playing, target equal to the
\* current node, or no uncrossed edge between them) returns success = false
\* and leaves graph, crossedEdges, currentNode, path, moveCount and status as
\* they were.
C30_RejectedMoveChangesNothing ==
  /\ [](\A t \in Range(gameState.graph.nodes) :
          Rejected(t) => LET m == Moved(heap, gameState, t)
                         IN  /\ ~m.success
                             /\ m.gameState = gameState
                             /\ m.heap = heap)
  /\ [][\A t \in Range(gameState.graph.nodes) :
          (makeMove(t) /\ Rejected(t))
            => /\ gameState' = gameState
               /\ Value(heap', gameState'.graph) = Value(heap, gameState.graph)
       ]_vars

\* A game in progress with moves left in which the one bridge back to the node
\* just left is crossed, so that moving back is rejected.
C30_Witness ==
  /\ gameState.gameStatus = "playing"
  /\ gameState.moveCount >= 1 /\ gameState.moveCount < MaxMoves
  /\ LET prev == gameState.path[Len(gameState.path) - 1]
     IN  /\ prev # gameState.currentNode
         /\ Rejected(prev)
         /\ ~Moved(heap, gameState, prev).success

\* C21: when AI Solve is started on a level that analyzePuzzle reports
\* solvable, from any game status, with no other input while it runs, then at
\* the step that ends handleSolve every bridge is crossed and the game status
\* is won.
C21_SolveEndsWon ==
  [][(Waiting /\ solveRun'.pc = "done" /\ isSolving)
       => /\ gameState'.gameStatus = "won"
          /\ Uncrossed(Value(heap', gameState'.graph)) = {}
    ]_vars

\* C28: after Reset was clicked while a handleSolve call was waiting, no later
\* step of that call changes the game: it stays idle with no current node, an
\* empty path and no crossed edge.
C28_ResetStopsTheAnimation ==
  [][(Waiting /\ ~isSolving /\ solveRun' # solveRun)
       => /\ gameState'.gameStatus = "idle"
          /\ gameState'.currentNode = NoNode
          /\ gameState'.path = <<>>
          /\ gameState'.crossedEdges = {}
          /\ Uncrossed(Value(heap', gameState'.graph)) = DOMAIN gameState'.graph.edges
    ]_vars

====
